---- MODULE Spec2Model ----
(***************************************************************************)
(* A model of dynomite-derive (src/dynomite-derive/src/lib.rs): the three  *)
(* derive macros Item, Attributes and Attribute, the code they emit, and   *)
(* the behaviour of that emitted code on record values, attribute maps and *)
(* attribute values.                                                       *)
(*                                                                         *)
(* The emitted code is kept as data (a token stream is a sequence of       *)
(* items, a function body is the sequence of statements the macro quoted), *)
(* and the run-time operators interpret that data the way rustc's output   *)
(* would run.                                                              *)
(***************************************************************************)
EXTENDS Integers, Sequences, FiniteSets, TLC

\* Largest number of named fields of a declared struct.
MaxFields == 3
\* Largest number of variants of a declared enum.
MaxVariants == 2

(***************************************************************************)
(* Rust's Option.                                                          *)
(***************************************************************************)
None == <<>>
Some(x) == <<x>>
is_some(o) == o # <<>>
unwrap(o) == o[1]

Min(S) == CHOOSE x \in S : \A y \in S : x <= y

(***************************************************************************)
(* The parsed argument of a #[dynomite(...)] attribute (attr::Attr) and a  *)
(* syn::Attribute: its path and, for dynomite, its parsed arguments.       *)
(***************************************************************************)
Attr(kind, lit) == [kind |-> kind, lit |-> lit]
PartitionKey == Attr("PartitionKey", "")
SortKey == Attr("SortKey", "")
Default == Attr("Default", "")
Rename(lit) == Attr("Rename", lit)

Attribute(path, args) == [path |-> path, args |-> args]

\* syn::Field with a name: its attributes, its identifier and its type.
Field(attrs, ident, ty) == [attrs |-> attrs, ident |-> ident, ty |-> ty]

\* parse_attrs: the arguments of the dynomite attributes, flattened in order;
\* attributes with another path are skipped.
RECURSIVE parse_attrs(_)
parse_attrs(all_attrs) ==
    IF all_attrs = <<>> THEN <<>>
    ELSE LET attr == Head(all_attrs)
         IN  (IF attr.path = "dynomite" THEN attr.args ELSE <<>>)
                 \o parse_attrs(Tail(all_attrs))

\* ItemField::new
ItemField_new(field) == [field |-> field, attrs |-> parse_attrs(field.attrs)]

is_partition_key(self) ==
    \E i \in 1..Len(self.attrs) : self.attrs[i].kind = "PartitionKey"

is_sort_key(self) ==
    \E i \in 1..Len(self.attrs) : self.attrs[i].kind = "SortKey"

\* is_default_when_absent taking a rename for the default annotation.
is_default_when_absent_on_rename(self) ==
    \E i \in 1..Len(self.attrs) : self.attrs[i].kind = "Rename"

is_default_when_absent(self) ==
    \E i \in 1..Len(self.attrs) : self.attrs[i].kind = "Default"

\* ItemField::deser_name: the literal of the first rename, else the identifier.
deser_name(self) ==
    LET renames == { i \in 1..Len(self.attrs) : self.attrs[i].kind = "Rename" }
    IN  IF renames # {} THEN self.attrs[Min(renames)].lit ELSE self.field.ident

\* fields.iter().map(ItemField::new).collect()
item_fields_of(fields) == [i \in 1..Len(fields) |-> ItemField_new(fields[i])]

\* fields.iter().find(pred): the first field, in declaration order, with pred.
find_partition_key(fields) ==
    LET hits == { i \in 1..Len(fields) : is_partition_key(fields[i]) }
    IN  IF hits = {} THEN None ELSE Some(fields[Min(hits)])

\* find taking the last field with the sort key annotation, not the first.
find_sort_key_last(fields) ==
    LET hits == { i \in 1..Len(fields) : is_sort_key(fields[i]) }
    IN  IF hits = {} THEN None
        ELSE Some(fields[CHOOSE i \in hits : \A j \in hits : j <= i])

find_sort_key(fields) ==
    LET hits == { i \in 1..Len(fields) : is_sort_key(fields[i]) }
    IN  IF hits = {} THEN None ELSE Some(fields[Min(hits)])

(***************************************************************************)
(* Emitted items.  An impl block names its trait, the type it is for and   *)
(* the body of its method; a struct names its derives and its fields.      *)
(***************************************************************************)
Impl(trait, name, body) ==
    [item |-> "impl", trait |-> trait, name |-> name, body |-> body,
     derives |-> <<>>, vis |-> "", message |-> ""]

Struct(derives, vis, name, fields) ==
    [item |-> "struct", trait |-> "", name |-> name, body |-> fields,
     derives |-> derives, vis |-> vis, message |-> ""]

\* syn::Error::to_compile_error: a compile_error!(message) invocation.
CompileError(message) ==
    [item |-> "compile_error", trait |-> "", name |-> "", body |-> <<>>,
     derives |-> <<>>, vis |-> "", message |-> message]

\* syn::Result of an expansion, and a panic of the macro.
Ok(tokens) == [ok |-> TRUE, tokens |-> tokens, message |-> "", panic |-> FALSE]
Err(message) ==
    [ok |-> FALSE, tokens |-> <<>>, message |-> message, panic |-> FALSE]
Panic(message) ==
    [ok |-> FALSE, tokens |-> <<>>, message |-> message, panic |-> TRUE]

\* get_to_attribute_map_function inserting every field under its declared
\* identifier, whatever it is renamed to.
get_to_attribute_map_function_by_ident(name, fields) ==
    [i \in 1..Len(fields) |->
        [field_deser_name |-> fields[i].field.ident,
         field_ident |-> fields[i].field.ident]]

\* get_to_attribute_map_function: one values.insert(name, into_attr(item.ident))
\* per field, in declaration order.
get_to_attribute_map_function(name, fields) ==
    [i \in 1..Len(fields) |->
        [field_deser_name |-> deser_name(fields[i]),
         field_ident |-> fields[i].field.ident]]

\* impl From<Name> for ::dynomite::Attributes
get_to_attribute_map_trait(name, fields) ==
    Impl("From", name, get_to_attribute_map_function(name, fields))

\* get_from_attributes_function looking every field up under its declared
\* identifier, whatever it is renamed to.
get_from_attributes_function_by_ident(fields) ==
    [i \in 1..Len(fields) |->
        [field_ident |-> fields[i].field.ident,
         field_deser_name |-> fields[i].field.ident,
         arm |-> IF is_default_when_absent(fields[i])
                 THEN "match_or_default" ELSE "ok_or_missing"]]

\* get_from_attributes_function: one field initialiser per field, in
\* declaration order; the default annotation selects the quoted arm.
get_from_attributes_function(fields) ==
    [i \in 1..Len(fields) |->
        [field_ident |-> fields[i].field.ident,
         field_deser_name |-> deser_name(fields[i]),
         arm |-> IF is_default_when_absent(fields[i])
                 THEN "match_or_default" ELSE "ok_or_missing"]]

\* impl ::dynomite::FromAttributes for Name
get_from_attributes_trait(name, fields) ==
    Impl("FromAttributes", name, get_from_attributes_function(fields))

\* get_key_inserter inserting the key under the field's declared identifier.
get_key_inserter_by_ident(field) ==
    [field_deser_name |-> field.field.ident,
     field_ident |-> field.field.ident]

\* get_key_inserter: keys.insert(name, into_attr(self.ident.clone()))
get_key_inserter(field) ==
    [field_deser_name |-> deser_name(field),
     field_ident |-> field.field.ident]

\* get_item_trait with a key() that leaves the sort key out.
get_item_trait_partition_only(name, fields) ==
    LET partition_key_field == find_partition_key(fields)
    IN  IF is_some(partition_key_field)
        THEN <<Impl("Item", name,
                    <<get_key_inserter(unwrap(partition_key_field))>>)>>
        ELSE <<>>

\* get_item_trait: impl ::dynomite::Item for Name, its key() inserting the
\* partition key and then the sort key; nothing without a partition key.
get_item_trait(name, fields) ==
    LET partition_key_field == find_partition_key(fields)
        sort_key_field == find_sort_key(fields)
        partition_key_insert ==
            IF is_some(partition_key_field)
            THEN <<get_key_inserter(unwrap(partition_key_field))>> ELSE <<>>
        sort_key_insert ==
            IF is_some(sort_key_field)
            THEN <<get_key_inserter(unwrap(sort_key_field))>> ELSE <<>>
    IN  IF is_some(partition_key_field)
        THEN <<Impl("Item", name, partition_key_insert \o sort_key_insert)>>
        ELSE <<>>

\* The derive list quoted on the key struct.
KeyStructDerives == <<"::dynomite::Attributes", "Debug", "Clone", "PartialEq">>

\* get_key_struct keeping the two key fields in the order of declaration.
get_key_struct_declaration_order(vis, name, fields) ==
    LET keyed == { i \in 1..Len(fields) :
                     \/ is_some(find_partition_key(fields))
                        /\ fields[i] = unwrap(find_partition_key(fields))
                     \/ is_some(find_sort_key(fields))
                        /\ fields[i] = unwrap(find_sort_key(fields)) }
        first == Min(keyed)
        rest == keyed \ {first}
    IN  IF is_some(find_partition_key(fields))
        THEN <<Struct(KeyStructDerives, vis, name \o "Key",
                      <<fields[first].field>>
                      \o (IF rest # {} THEN <<fields[Min(rest)].field>>
                          ELSE <<>>))>>
        ELSE <<>>

\* get_key_struct: struct NameKey { partition key field, sort key field },
\* each field cloned with all its attributes.
get_key_struct(vis, name, fields) ==
    LET key_name == name \o "Key"
        partition_key_field == find_partition_key(fields)
        sort_key_field == find_sort_key(fields)
    IN  IF is_some(partition_key_field)
        THEN <<Struct(KeyStructDerives, vis, key_name,
                      <<unwrap(partition_key_field).field>>
                      \o (IF is_some(sort_key_field)
                          THEN <<unwrap(sort_key_field).field>> ELSE <<>>))>>
        ELSE <<>>

\* get_item_impls: the Item impl, then the key struct.
get_item_impls(vis, name, fields) ==
    get_item_trait(name, fields) \o get_key_struct(vis, name, fields)

get_dynomite_item_traits(vis, name, fields) == get_item_impls(vis, name, fields)

\* The message of the partition key cardinality error: the format string with
\* the name and the count filled in.  (The source quotes the name in
\* backquotes, which a TLA+ string cannot hold: an apostrophe stands for each.)
partition_key_error(name, partition_key_count) ==
    "All Item's must declare one and only one partition_key. The '"
        \o name \o "' Item declared " \o ToString(partition_key_count)

\* make_dynomite_item with the cardinality check accepting any record that
\* has a partition key at all.
make_dynomite_item_at_least_one(vis, name, fields) ==
    LET item_fields == item_fields_of(fields)
        partition_key_count ==
            Cardinality({ i \in 1..Len(item_fields) :
                            is_partition_key(item_fields[i]) })
    IN  IF partition_key_count < 1
        THEN Err(partition_key_error(name, partition_key_count))
        ELSE Ok(<<get_from_attributes_trait(name, item_fields),
                  get_to_attribute_map_trait(name, item_fields)>>
                \o get_dynomite_item_traits(vis, name, item_fields))

\* make_dynomite_item
make_dynomite_item(vis, name, fields) ==
    LET item_fields == item_fields_of(fields)
        partition_key_count ==
            Cardinality({ i \in 1..Len(item_fields) :
                            is_partition_key(item_fields[i]) })
    IN  IF partition_key_count # 1
        THEN Err(partition_key_error(name, partition_key_count))
        ELSE Ok(<<get_from_attributes_trait(name, item_fields),
                  get_to_attribute_map_trait(name, item_fields)>>
                \o get_dynomite_item_traits(vis, name, item_fields))

\* make_dynomite_attributes: FromAttributes, From<Name> and Attribute (the
\* record as a map-typed attribute value).
make_dynomite_attributes(name, fields) ==
    LET item_fields == item_fields_of(fields)
    IN  Ok(<<get_from_attributes_trait(name, item_fields),
             get_to_attribute_map_trait(name, item_fields),
             Impl("Attribute", name, <<"m">>)>>)

\* make_dynomite_attr: impl Attribute for an enum; the body holds the match
\* arms of into_attr and of from_attr, one per variant, in order.  A value
\* of the enum is the position of its variant; stringify! gives the
\* variant's identifier as written.
make_dynomite_attr(name, variants) ==
    LET into_match_arms ==
            [i \in 1..Len(variants) |-> [pat |-> i, str |-> variants[i]]]
        from_match_arms ==
            [i \in 1..Len(variants) |-> [pat |-> variants[i], val |-> i]]
    IN  Impl("Attribute", name,
             [into_attr |-> into_match_arms, from_attr |-> from_match_arms])

(***************************************************************************)
(* The macro entry points.  A DeriveInput is the declaration the macro is  *)
(* applied to: its identifier, its visibility, its shape, and the named    *)
(* fields of a struct or the variants of an enum.                          *)
(***************************************************************************)
DeriveInput(ident, vis, data, fields, variants) ==
    [ident |-> ident, vis |-> vis, data |-> data, fields |-> fields,
     variants |-> variants]

expand_attribute(ast) ==
    IF ast.data = "Enum"
    THEN Ok(<<make_dynomite_attr(ast.ident, ast.variants)>>)
    ELSE Panic("Dynomite Attributes can only be generated for enum types")

expand_attributes(ast) ==
    IF ast.data = "StructNamed"
    THEN make_dynomite_attributes(ast.ident, ast.fields)
    ELSE IF ast.data = "StructUnnamed"
    THEN Err("Dynomite Attributes require named fields")
    ELSE Panic("Dynomite Attributes can only be generated for structs")

expand_item(ast) ==
    IF ast.data = "StructNamed"
    THEN make_dynomite_item(ast.vis, ast.ident, ast.fields)
    ELSE IF ast.data = "StructUnnamed"
    THEN Err("Dynomite Items require named fields")
    ELSE Panic("Dynomite Items can only be generated for structs")

\* What a derive hands back to the compiler: the generated items, or the
\* error as a compile_error item; a panic hands back nothing.
Output(result) ==
    IF result.panic THEN [panicked |-> TRUE, tokens |-> <<>>]
    ELSE IF result.ok THEN [panicked |-> FALSE, tokens |-> result.tokens]
    ELSE [panicked |-> FALSE, tokens |-> <<CompileError(result.message)>>]

derive_item(input) == Output(expand_item(input))
derive_attributes(input) == Output(expand_attributes(input))
derive_attribute(input) == Output(expand_attribute(input))

\* The derives named on an emitted struct, expanded in turn: the key struct
\* is handed to the Attributes macro as a struct with named fields; the
\* standard derives each contribute their impl.
RECURSIVE expand_derives(_, _)
expand_derives(struct, k) ==
    IF k > Len(struct.derives) THEN <<>>
    ELSE (IF struct.derives[k] = "::dynomite::Attributes"
          THEN derive_attributes(DeriveInput(struct.name, struct.vis,
                                   "StructNamed", struct.body, <<>>)).tokens
          ELSE <<Impl(struct.derives[k], struct.name, <<>>)>>)
         \o expand_derives(struct, k + 1)

\* All the items of the crate that come from one derive: its output, then
\* the expansion of the derives on each struct it emitted.
RECURSIVE expand_emitted(_, _)
expand_emitted(tokens, k) ==
    IF k > Len(tokens) THEN <<>>
    ELSE (IF tokens[k].item = "struct"
          THEN expand_derives(tokens[k], 1) ELSE <<>>)
         \o expand_emitted(tokens, k + 1)

compile(tokens) == tokens \o expand_emitted(tokens, 1)

(***************************************************************************)
(* Run time.  An AttributeValue has a string component s and other         *)
(* components, of which the number component n stands here; Default leaves *)
(* every component None.  Attributes is a map from names to attribute      *)
(* values.  A Result is Ok(value) or Err(AttributeError).                  *)
(***************************************************************************)
AttributeValue(s, n) == [s |-> s, n |-> n]

NoError == [kind |-> "", name |-> ""]
InvalidType == [kind |-> "InvalidType", name |-> ""]
InvalidFormat == [kind |-> "InvalidFormat", name |-> ""]
MissingField(name) == [kind |-> "MissingField", name |-> name]

ROk(value) == [ok |-> TRUE, value |-> value, err |-> NoError]
RErr(err) == [ok |-> FALSE, value |-> <<>>, err |-> err]

\* HashMap::new, insert (the last insertion under a name stays) and remove.
EmptyMap == [k \in {} |-> None]
Insert(map, k, v) ==
    [x \in DOMAIN map \cup {k} |-> IF x = k THEN v ELSE map[x]]
Remove(map, k) == [x \in DOMAIN map \ {k} |-> map[x]]

\* dynomite's Attribute for String, the type of every field of the model,
\* and String's Default.
String_into_attr(self) == AttributeValue(Some(self), None)
String_from_attr(value) ==
    IF is_some(value.s) THEN ROk(unwrap(value.s)) ELSE RErr(InvalidType)
String_default == ""

\* The impl of a trait for a type among the items, if there is one.
impl_of(code, trait, name) ==
    LET hits == { i \in 1..Len(code) :
                    /\ code[i].item = "impl"
                    /\ code[i].trait = trait
                    /\ code[i].name = name }
    IN  IF hits = {} THEN None ELSE Some(code[Min(hits)])

\* The emitted from(item): the insertions run in order on a new map.
RECURSIVE run_from(_, _, _, _)
run_from(body, k, item, values) ==
    IF k > Len(body) THEN values
    ELSE run_from(body, k + 1, item,
                  Insert(values, body[k].field_deser_name,
                         String_into_attr(item[body[k].field_ident])))

from(body, item) == run_from(body, 1, item, EmptyMap)

\* from_attrs running every field initialiser and returning the last error.
RECURSIVE run_all_from_attrs(_, _, _, _, _)
run_all_from_attrs(body, k, attrs, self, last) ==
    IF k > Len(body)
    THEN [result |-> IF last = NoError THEN ROk(self) ELSE RErr(last),
          examined |-> k - 1, rest |-> attrs]
    ELSE LET name == body[k].field_deser_name
             removed == IF name \in DOMAIN attrs THEN Some(attrs[name]) ELSE None
             field == IF is_some(removed)
                      THEN String_from_attr(unwrap(removed))
                      ELSE IF body[k].arm = "match_or_default"
                      THEN ROk(String_default)
                      ELSE RErr(MissingField(name))
         IN  run_all_from_attrs(body, k + 1, Remove(attrs, name),
                                Insert(self, body[k].field_ident, field.value),
                                IF field.ok THEN last ELSE field.err)

from_attrs_last_error(body, attrs) ==
    run_all_from_attrs(body, 1, attrs, EmptyMap, NoError)

\* The emitted from_attrs(attrs): the field initialisers run in order, each
\* removing its entry from attrs; the first ? that meets an Err returns it.
\* examined counts the initialisers that ran, rest is attrs at the return.
RECURSIVE run_from_attrs(_, _, _, _)
run_from_attrs(body, k, attrs, self) ==
    IF k > Len(body)
    THEN [result |-> ROk(self), examined |-> k - 1, rest |-> attrs]
    ELSE LET name == body[k].field_deser_name
             removed == IF name \in DOMAIN attrs THEN Some(attrs[name]) ELSE None
             after == Remove(attrs, name)
             field == IF is_some(removed)
                      THEN String_from_attr(unwrap(removed))
                      ELSE IF body[k].arm = "match_or_default"
                      THEN ROk(String_default)
                      ELSE RErr(MissingField(name))
         IN  IF field.ok
             THEN run_from_attrs(body, k + 1, after,
                                 Insert(self, body[k].field_ident, field.value))
             ELSE [result |-> RErr(field.err), examined |-> k, rest |-> after]

from_attrs(body, attrs) == run_from_attrs(body, 1, attrs, EmptyMap)

\* The emitted key(&self): the inserters run in order on a new map, each on
\* a clone of the field.
clone(v) == v

RECURSIVE run_key(_, _, _, _)
run_key(body, k, self, keys) ==
    IF k > Len(body) THEN keys
    ELSE run_key(body, k + 1, self,
                 Insert(keys, body[k].field_deser_name,
                        String_into_attr(clone(self[body[k].field_ident]))))

key(body, self) == run_key(body, 1, self, EmptyMap)

\* The emitted into_attr of an enum: the arm of the variant, as the string
\* component of an otherwise default attribute value.
into_attr(body, self) ==
    LET arms == body.into_attr
        arm == arms[Min({ i \in 1..Len(arms) : arms[i].pat = self })].str
    IN  AttributeValue(Some(arm), None)

\* from_attr of an enum matching the string whatever its letter case.
Upper(str) == IF str = "red" \/ str = "Red" THEN "RED" ELSE str
from_attr_ignoring_case(body, value) ==
    IF ~is_some(value.s) THEN RErr(InvalidType)
    ELSE LET arms == body.from_attr
             hits == { i \in 1..Len(arms) :
                         Upper(arms[i].pat) = Upper(unwrap(value.s)) }
         IN  IF hits # {} THEN ROk(arms[Min(hits)].val)
             ELSE RErr(InvalidFormat)

\* The emitted from_attr of an enum: the string component or InvalidType,
\* and then the first arm matching the string or InvalidFormat.
from_attr(body, value) ==
    IF ~is_some(value.s) THEN RErr(InvalidType)
    ELSE LET arms == body.from_attr
             hits == { i \in 1..Len(arms) : arms[i].pat = unwrap(value.s) }
         IN  IF hits # {} THEN ROk(arms[Min(hits)].val)
             ELSE RErr(InvalidFormat)


(***************************************************************************)
(* The declarations the macros are applied to.                             *)
(***************************************************************************)
\* The identifier of the i-th declared field.
FieldIdents == <<"a", "b", "c", "d", "e">>

\* The attribute lists a field is declared with.
FieldAttrChoices ==
    { <<>>,
      <<Attribute("dynomite", <<PartitionKey>>)>>,
      <<Attribute("dynomite", <<SortKey>>)>>,
      <<Attribute("serde", <<Rename("z")>>),
        Attribute("dynomite", <<Default>>)>>,
      <<Attribute("dynomite", <<Rename("x")>>)>>,
      <<Attribute("dynomite", <<PartitionKey, Rename("x")>>)>>,
      <<Attribute("dynomite", <<SortKey>>),
        Attribute("dynomite", <<Rename("x")>>)>>,
      <<Attribute("dynomite", <<Default, Rename("y")>>),
        Attribute("dynomite", <<Rename("x")>>)>> }

FieldLists ==
    UNION { { [i \in 1..n |-> Field(choice[i], FieldIdents[i], "String")] :
                choice \in [1..n -> FieldAttrChoices] } : n \in 0..MaxFields }

VariantNames == {"Red", "red", "Blue"}

VariantLists ==
    UNION { { vs \in [1..n -> VariantNames] :
                \A i, j \in 1..n : vs[i] = vs[j] => i = j } :
            n \in 0..MaxVariants }

Declarations ==
    { DeriveInput("Person", "pub", "StructNamed", fields, <<>>) :
        fields \in FieldLists }
    \cup { DeriveInput("Pair", "pub", "StructUnnamed", <<>>, <<>>) }
    \cup { DeriveInput("Color", "pub", "Enum", <<>>, variants) :
             variants \in VariantLists }

\* The values of a struct type the emitted code is run on: every field holds
\* a string of its own, so that no two fields of a value are equal and none
\* is the default string.
ValuePrefixes == {"u", "w"}
ValuesOf(idents) ==
    { [id \in idents |-> prefix \o id] : prefix \in ValuePrefixes }

\* An attribute value with no string component, and the attribute values
\* handed to an enum's from_attr.
NumberAttr == AttributeValue(None, Some("1"))
AttributeValues ==
    { AttributeValue(s, n) :
        s \in {None} \cup { Some(v) : v \in VariantNames \cup {"RED"} },
        n \in {None, Some("1")} }

(***************************************************************************)
(* The state: the macro and the declaration it is applied to, the items of *)
(* the crate after expansion, and the run of the emitted code: the type    *)
(* and the value at hand, the attribute map or attribute value made from   *)
(* it (and possibly changed since), the outcome of the conversion back and *)
(* the map key() returned.                                                 *)
(***************************************************************************)
VARIABLES macro, ast, phase, code, ty, val, attrs, attr, res, keys

vars == <<macro, ast, phase, code, ty, val, attrs, attr, res, keys>>

NoRes == [result |-> RErr(NoError), examined |-> 0, rest |-> EmptyMap]

Init ==
    /\ macro \in {"Item", "Attributes", "Attribute"}
    /\ ast \in Declarations
    /\ phase = "source"
    /\ code = <<>>
    /\ ty = ""
    /\ val = <<>>
    /\ attrs = EmptyMap
    /\ attr = AttributeValue(None, None)
    /\ res = NoRes
    /\ keys = EmptyMap

\* The compiler runs the derive on the declaration and expands what it emits.
Expanded(out) ==
    /\ phase' = IF out.panicked THEN "panicked"
                ELSE IF \E i \in 1..Len(out.tokens) :
                            out.tokens[i].item = "compile_error"
                THEN "rejected" ELSE "expanded"
    /\ code' = compile(out.tokens)
    /\ UNCHANGED <<macro, ast, ty, val, attrs, attr, res, keys>>

DeriveItem ==
    /\ phase = "source"
    /\ macro = "Item"
    /\ Expanded(derive_item(ast))

DeriveAttributes ==
    /\ phase = "source"
    /\ macro = "Attributes"
    /\ Expanded(derive_attributes(ast))

DeriveAttribute ==
    /\ phase = "source"
    /\ macro = "Attribute"
    /\ Expanded(derive_attribute(ast))

\* The struct types of the crate and the identifiers of their fields.
StructTypes ==
    (IF ast.data = "StructNamed" THEN {ast.ident} ELSE {})
    \cup { code[i].name : i \in { j \in 1..Len(code) : code[j].item = "struct" } }

FieldsOf(t) ==
    IF t = ast.ident THEN ast.fields
    ELSE code[Min({ i \in 1..Len(code) :
                      code[i].item = "struct" /\ code[i].name = t })].body

IdentsOf(t) == { FieldsOf(t)[i].ident : i \in 1..Len(FieldsOf(t)) }

\* A value of a struct type of the crate is built.
New(t, v) ==
    /\ phase = "expanded"
    /\ t \in StructTypes
    /\ ty' = t
    /\ val' = v
    /\ phase' = "value"
    /\ UNCHANGED <<macro, ast, code, attrs, attr, res, keys>>

\* let attributes: Attributes = value.clone().into()
Into ==
    /\ phase = "value"
    /\ is_some(impl_of(code, "From", ty))
    /\ attrs' = from(unwrap(impl_of(code, "From", ty)).body, clone(val))
    /\ phase' = "mapped"
    /\ UNCHANGED <<macro, ast, code, ty, val, attr, res, keys>>

\* The caller removes an entry of the map before it is converted back.
RemoveEntry(k) ==
    /\ phase = "mapped"
    /\ k \in DOMAIN attrs
    /\ attrs' = Remove(attrs, k)
    /\ UNCHANGED <<macro, ast, phase, code, ty, val, attr, res, keys>>

\* The caller replaces an entry by an attribute value that is no string.
CorruptEntry(k) ==
    /\ phase = "mapped"
    /\ k \in DOMAIN attrs
    /\ attrs[k] # NumberAttr
    /\ attrs' = Insert(attrs, k, NumberAttr)
    /\ UNCHANGED <<macro, ast, phase, code, ty, val, attr, res, keys>>

\* Type::from_attrs(attributes)
FromAttrs ==
    /\ phase = "mapped"
    /\ is_some(impl_of(code, "FromAttributes", ty))
    /\ res' = from_attrs(unwrap(impl_of(code, "FromAttributes", ty)).body, attrs)
    /\ phase' = "decoded"
    /\ UNCHANGED <<macro, ast, code, ty, val, attrs, attr, keys>>

\* value.key()
Key ==
    /\ phase = "value"
    /\ is_some(impl_of(code, "Item", ty))
    /\ keys' = key(unwrap(impl_of(code, "Item", ty)).body, val)
    /\ phase' = "keyed"
    /\ UNCHANGED <<macro, ast, code, ty, val, attrs, attr, res>>

\* The Attribute impl of the declared enum.
EnumImpl ==
    IF ast.data = "Enum" THEN impl_of(code, "Attribute", ast.ident) ELSE None

\* variant.into_attr()
IntoAttr(c) ==
    /\ phase = "expanded"
    /\ is_some(EnumImpl)
    /\ c \in 1..Len(ast.variants)
    /\ ty' = ast.ident
    /\ val' = c
    /\ attr' = into_attr(unwrap(EnumImpl).body, c)
    /\ phase' = "attr"
    /\ UNCHANGED <<macro, ast, code, attrs, res, keys>>

\* An attribute value read from elsewhere is at hand.
GivenAttr(value) ==
    /\ phase = "expanded"
    /\ is_some(EnumImpl)
    /\ ty' = ast.ident
    /\ attr' = value
    /\ phase' = "given"
    /\ UNCHANGED <<macro, ast, code, val, attrs, res, keys>>

\* Enum::from_attr(value)
FromAttr ==
    /\ phase \in {"attr", "given"}
    /\ res' = [result |-> from_attr(unwrap(EnumImpl).body, attr),
               examined |-> 0, rest |-> EmptyMap]
    /\ phase' = IF phase = "attr" THEN "attr_decoded" ELSE "given_decoded"
    /\ UNCHANGED <<macro, ast, code, ty, val, attrs, attr, keys>>

Next ==
    \/ DeriveItem
    \/ DeriveAttributes
    \/ DeriveAttribute
    \/ \E t \in StructTypes : \E v \in ValuesOf(IdentsOf(t)) : New(t, v)
    \/ Into
    \/ \E k \in DOMAIN attrs : RemoveEntry(k)
    \/ \E k \in DOMAIN attrs : CorruptEntry(k)
    \/ FromAttrs
    \/ Key
    \/ \E c \in 1..MaxVariants : IntoAttr(c)
    \/ \E value \in AttributeValues : GivenAttr(value)
    \/ FromAttr

Spec == Init /\ [][Next]_vars

(***************************************************************************)
(* The Item derive on its own, over declarations in which a field may also *)
(* carry both key annotations at once, and the keys of the values built.   *)
(***************************************************************************)
KeyAttrChoices ==
    FieldAttrChoices
    \cup { <<Attribute("dynomite", <<PartitionKey, SortKey>>)>> }

KeyFieldLists ==
    UNION { { [i \in 1..n |-> Field(choice[i], FieldIdents[i], "String")] :
                choice \in [1..n -> KeyAttrChoices] } : n \in 0..MaxFields }

KeyDeclarations ==
    { DeriveInput("Person", "pub", "StructNamed", fields, <<>>) :
        fields \in KeyFieldLists }

KeyInit ==
    /\ macro = "Item"
    /\ ast \in KeyDeclarations
    /\ phase = "source"
    /\ code = <<>>
    /\ ty = ""
    /\ val = <<>>
    /\ attrs = EmptyMap
    /\ attr = AttributeValue(None, None)
    /\ res = NoRes
    /\ keys = EmptyMap

KeyNext ==
    \/ DeriveItem
    \/ \E t \in StructTypes : \E v \in ValuesOf(IdentsOf(t)) : New(t, v)
    \/ Key

KeySpec == KeyInit /\ [][KeyNext]_vars

(***************************************************************************)
(* What the declaration says, read off its attributes as written: whether  *)
(* a field carries an annotation, and its effective external name (the     *)
(* value of its first rename annotation, else its declared name).          *)
(***************************************************************************)
Annotated(field, kind) ==
    \E i \in 1..Len(field.attrs) :
        /\ field.attrs[i].path = "dynomite"
        /\ \E j \in 1..Len(field.attrs[i].args) :
               field.attrs[i].args[j].kind = kind

EffectiveName(field) ==
    LET renaming ==
            { i \in 1..Len(field.attrs) :
                /\ field.attrs[i].path = "dynomite"
                /\ \E j \in 1..Len(field.attrs[i].args) :
                       field.attrs[i].args[j].kind = "Rename" }
    IN  IF renaming = {} THEN field.ident
        ELSE LET args == field.attrs[Min(renaming)].args
             IN  args[Min({ j \in 1..Len(args) : args[j].kind = "Rename" })].lit

\* The positions of the fields of a list that carry an annotation.
Carrying(fields, kind) ==
    { i \in 1..Len(fields) : Annotated(fields[i], kind) }

\* No two fields of the list have the same effective external name.
DistinctNames(fields) ==
    LET names == [i \in 1..Len(fields) |-> EffectiveName(fields[i])]
    IN  \A i, j \in 1..Len(fields) : names[i] = names[j] => i = j

\* Item was derived for a struct with named fields, and the derive is over.
ItemDerived ==
    /\ macro = "Item"
    /\ ast.data = "StructNamed"
    /\ phase # "source"

(***************************************************************************)
(* C1.  Deriving Item for a record with named fields fails whenever the    *)
(* number of fields carrying partition_key is not exactly 1; the error     *)
(* names the record and reports that number, and nothing but the error is  *)
(* generated.  With exactly one such field the derive does not fail.       *)
(***************************************************************************)
C1_PartitionKeyCardinality ==
    ItemDerived =>
        LET count == Cardinality(Carrying(ast.fields, "PartitionKey"))
        IN  IF count # 1
            THEN /\ phase = "rejected"
                 /\ Len(code) = 1
                 /\ code[1].item = "compile_error"
                 /\ code[1].message =
                        "All Item's must declare one and only one partition_key. The '"
                        \o ast.ident \o "' Item declared " \o ToString(count)
            ELSE /\ phase # "rejected"
                 /\ \A i \in 1..Len(code) : code[i].item # "compile_error"

C1_Witness ==
    /\ ItemDerived
    /\ phase = "rejected"
    /\ Cardinality(Carrying(ast.fields, "PartitionKey")) = 2
    /\ Len(ast.fields) = 3

(***************************************************************************)
(* The run of the emitted conversions on a struct value: from_attrs has    *)
(* returned; SourceMap is the attribute map the value converts to, and     *)
(* Without(i) is that map with the entry of the i-th field removed.        *)
(***************************************************************************)
Decoded == phase = "decoded"

TypeFields == FieldsOf(ty)

SourceMap == from(unwrap(impl_of(code, "From", ty)).body, val)

Without(i) == Remove(SourceMap, EffectiveName(TypeFields[i]))

\* In the formulas below a map is compared with the source map less an entry
\* only after the entry is seen to be absent from it, which the comparison
\* implies and which is cheaper to evaluate.

(***************************************************************************)
(* C2 as claimed.  For every derived record declaration and every value v  *)
(* of it, converting v to an attribute map and calling from_attrs on that  *)
(* map returns Ok of a value equal to v.                                   *)
(***************************************************************************)
C2_RoundTripAnyDeclaration ==
    (Decoded /\ attrs = SourceMap) => res.result = ROk(val)

(***************************************************************************)
(* C2 as amended.  For every derived record declaration whose fields have  *)
(* pairwise distinct effective external names and every value v of it,     *)
(* converting v to an attribute map and calling from_attrs on that map     *)
(* returns Ok of a value equal to v.                                       *)
(***************************************************************************)
C2_RoundTrip ==
    (Decoded /\ attrs = SourceMap /\ DistinctNames(TypeFields)) =>
        res.result = ROk(val)

C2_Witness ==
    /\ Decoded
    /\ attrs = SourceMap
    /\ DistinctNames(TypeFields)
    /\ Len(TypeFields) = 3
    /\ \E i \in 1..3 : EffectiveName(TypeFields[i]) # TypeFields[i].ident
    /\ Carrying(TypeFields, "Default") # {}
    /\ res.result.ok

(***************************************************************************)
(* C3 as claimed.  For every field f without the default annotation:       *)
(* taking the attribute map produced from any record value, removing the   *)
(* entry for f and calling from_attrs fails with MissingField naming f's   *)
(* effective external name.                                                *)
(***************************************************************************)
C3_MissingFieldAnyDeclaration ==
    Decoded =>
        LET source == SourceMap
        IN  \A i \in 1..Len(TypeFields) :
                (/\ ~Annotated(TypeFields[i], "Default")
                 /\ EffectiveName(TypeFields[i]) \notin DOMAIN attrs
                 /\ attrs = Remove(source, EffectiveName(TypeFields[i]))) =>
                    res.result
                        = RErr(MissingField(EffectiveName(TypeFields[i])))

(***************************************************************************)
(* C3 as amended.  The same, for the records whose fields have pairwise    *)
(* distinct effective external names.                                      *)
(***************************************************************************)
C3_MissingField ==
    (Decoded /\ DistinctNames(TypeFields)) =>
        LET source == SourceMap
        IN  \A i \in 1..Len(TypeFields) :
                (/\ ~Annotated(TypeFields[i], "Default")
                 /\ EffectiveName(TypeFields[i]) \notin DOMAIN attrs
                 /\ attrs = Remove(source, EffectiveName(TypeFields[i]))) =>
                    res.result
                        = RErr(MissingField(EffectiveName(TypeFields[i])))

C3_Witness ==
    /\ Decoded
    /\ DistinctNames(TypeFields)
    /\ \E i \in 1..Len(TypeFields) :
           /\ i > 1
           /\ ~Annotated(TypeFields[i], "Default")
           /\ Annotated(TypeFields[i], "Rename")
           /\ attrs = Without(i)
           /\ res.result.err = MissingField("x")

(***************************************************************************)
(* C4 as claimed.  For every field f with the default annotation: taking   *)
(* the attribute map produced from any record value, removing the entry    *)
(* for f and calling from_attrs succeeds with a record whose f is the      *)
(* default of the field's type (the empty string) and whose other fields   *)
(* equal those of the original value.                                      *)
(***************************************************************************)
C4_DefaultWhenAbsentAnyDeclaration ==
    Decoded =>
        LET source == SourceMap
        IN  \A i \in 1..Len(TypeFields) :
                (/\ Annotated(TypeFields[i], "Default")
                 /\ EffectiveName(TypeFields[i]) \notin DOMAIN attrs
                 /\ attrs = Remove(source, EffectiveName(TypeFields[i]))) =>
                    /\ res.result.ok
                    /\ DOMAIN res.result.value = DOMAIN val
                    /\ res.result.value[TypeFields[i].ident] = ""
                    /\ \A j \in 1..Len(TypeFields) :
                           j # i => res.result.value[TypeFields[j].ident]
                                       = val[TypeFields[j].ident]

(***************************************************************************)
(* C4 as amended.  The same, for the records whose fields have pairwise    *)
(* distinct effective external names.                                      *)
(***************************************************************************)
C4_DefaultWhenAbsent ==
    (Decoded /\ DistinctNames(TypeFields)) =>
        LET source == SourceMap
        IN  \A i \in 1..Len(TypeFields) :
                (/\ Annotated(TypeFields[i], "Default")
                 /\ EffectiveName(TypeFields[i]) \notin DOMAIN attrs
                 /\ attrs = Remove(source, EffectiveName(TypeFields[i]))) =>
                    /\ res.result.ok
                    /\ DOMAIN res.result.value = DOMAIN val
                    /\ res.result.value[TypeFields[i].ident] = ""
                    /\ \A j \in 1..Len(TypeFields) :
                           j # i => res.result.value[TypeFields[j].ident]
                                       = val[TypeFields[j].ident]

C4_Witness ==
    /\ Decoded
    /\ DistinctNames(TypeFields)
    /\ Len(TypeFields) = 3
    /\ \E i \in 1..3 :
           /\ Annotated(TypeFields[i], "Default")
           /\ Annotated(TypeFields[i], "Rename")
           /\ attrs = Without(i)
           /\ res.result.ok
           /\ res.result.value[TypeFields[i].ident] = ""
           /\ val[TypeFields[i].ident] # ""

(***************************************************************************)
(* C5.  For a derived data-less enumeration: into_attr of each case is a   *)
(* string attribute holding exactly the case name, and from_attr of it     *)
(* returns the case; from_attr of a string attribute whose string equals   *)
(* no case name (compared exactly) fails with InvalidFormat; from_attr of  *)
(* an attribute without a string component fails with InvalidType,         *)
(* whatever else the attribute holds.                                      *)
(***************************************************************************)
C5_EnumMapping ==
    /\ phase \in {"attr", "attr_decoded"} =>
           attr = [s |-> <<ast.variants[val]>>, n |-> <<>>]
    /\ phase = "attr_decoded" =>
           res.result = [ok |-> TRUE, value |-> val, err |-> NoError]
    /\ phase = "given_decoded" =>
           IF attr.s = <<>>
           THEN res.result.ok = FALSE /\ res.result.err.kind = "InvalidType"
           ELSE IF \E i \in 1..Len(ast.variants) : ast.variants[i] = attr.s[1]
           THEN res.result.ok /\ ast.variants[res.result.value] = attr.s[1]
           ELSE res.result.ok = FALSE /\ res.result.err.kind = "InvalidFormat"

C5_Witness ==
    /\ phase = "given_decoded"
    /\ ast.variants = <<"Blue", "Red">>
    /\ attr.s = <<"red">>
    /\ res.result.err.kind = "InvalidFormat"

(***************************************************************************)
(* C6.  Every generated path uses a field's effective external name (the   *)
(* rename value when the field is renamed, the declared name verbatim      *)
(* otherwise) as the attribute-map key: the insertion of From, the lookup  *)
(* of from_attrs and the insertions of key() on the record, and the        *)
(* insertion and the lookup generated for the Key record.                  *)
(***************************************************************************)
UsesEffectiveNames(t) ==
    LET fields == FieldsOf(t)
        into == unwrap(impl_of(code, "From", t)).body
        back == unwrap(impl_of(code, "FromAttributes", t)).body
    IN  /\ Len(into) = Len(fields)
        /\ Len(back) = Len(fields)
        /\ \A i \in 1..Len(fields) :
               /\ into[i].field_ident = fields[i].ident
               /\ into[i].field_deser_name = EffectiveName(fields[i])
               /\ back[i].field_ident = fields[i].ident
               /\ back[i].field_deser_name = EffectiveName(fields[i])

C6_RenamePropagation ==
    (phase = "expanded" /\ ast.data = "StructNamed") =>
        /\ \A t \in StructTypes : UsesEffectiveNames(t)
        /\ macro = "Item" =>
               LET inserters == unwrap(impl_of(code, "Item", ast.ident)).body
               IN  /\ inserters # <<>>
                   /\ \A k \in 1..Len(inserters) :
                          \E i \in 1..Len(ast.fields) :
                              /\ ast.fields[i].ident = inserters[k].field_ident
                              /\ EffectiveName(ast.fields[i])
                                     = inserters[k].field_deser_name

C6_Witness ==
    /\ phase = "expanded"
    /\ macro = "Item"
    /\ Len(ast.fields) = 3
    /\ \E i \in Carrying(ast.fields, "PartitionKey") :
           Annotated(ast.fields[i], "Rename")
    /\ \E i \in Carrying(ast.fields, "SortKey") :
           ~Annotated(ast.fields[i], "Rename")
    /\ Cardinality(StructTypes) = 2

(***************************************************************************)
(* C7.  For an Item record with exactly one partition-key field, the       *)
(* generated NameKey record holds exactly the partition-key field when no  *)
(* field is a sort key, and exactly the partition-key field followed by    *)
(* the sort-key field when exactly one field is a sort key, in whatever    *)
(* order the two were declared; no plain field is ever in the key record.  *)
(***************************************************************************)
KeyStructs == { i \in 1..Len(code) : code[i].item = "struct" }

C7_KeyTypeShape ==
    (macro = "Item" /\ phase = "expanded") =>
        LET pk == Carrying(ast.fields, "PartitionKey")
            sk == Carrying(ast.fields, "SortKey")
        IN  /\ Cardinality(pk) = 1
            /\ Cardinality(KeyStructs) = 1
            /\ \A s \in KeyStructs :
                   /\ code[s].name = ast.ident \o "Key"
                   /\ sk = {} =>
                          code[s].body = << ast.fields[CHOOSE i \in pk : TRUE] >>
                   /\ Cardinality(sk) = 1 =>
                          code[s].body = << ast.fields[CHOOSE i \in pk : TRUE],
                                            ast.fields[CHOOSE i \in sk : TRUE] >>
                   /\ \A j \in 1..Len(code[s].body) :
                          \/ Annotated(code[s].body[j], "PartitionKey")
                          \/ Annotated(code[s].body[j], "SortKey")

C7_Witness ==
    /\ macro = "Item"
    /\ phase = "expanded"
    /\ Len(ast.fields) = 3
    /\ Carrying(ast.fields, "SortKey") = {1}
    /\ Carrying(ast.fields, "PartitionKey") = {3}
    /\ \A s \in KeyStructs : Len(code[s].body) = 2

(***************************************************************************)
(* The key fields of the declared record: its partition-key field and the  *)
(* first of its sort-key fields, if it has any.                            *)
(***************************************************************************)
PartitionField == ast.fields[Min(Carrying(ast.fields, "PartitionKey"))]
HasSortField == Carrying(ast.fields, "SortKey") # {}
SortField == ast.fields[Min(Carrying(ast.fields, "SortKey"))]

KeyEntries ==
    /\ DOMAIN keys = {EffectiveName(PartitionField)}
            \cup (IF HasSortField THEN {EffectiveName(SortField)} ELSE {})
    /\ keys[EffectiveName(PartitionField)]
           = [s |-> <<val[PartitionField.ident]>>, n |-> <<>>]
    /\ HasSortField =>
           keys[EffectiveName(SortField)]
               = [s |-> <<val[SortField.ident]>>, n |-> <<>>]

(***************************************************************************)
(* C8 as claimed.  For any Item record value v, key() returns a map whose  *)
(* key set is the effective external name of the partition-key field plus, *)
(* if there is a sort-key field, that of the sort-key field, each mapped   *)
(* to the attribute conversion of v's field; no plain field contributes an *)
(* entry, and v is left unchanged.                                         *)
(***************************************************************************)
C8_KeyExtractionAnyDeclaration ==
    /\ [](phase = "keyed" => KeyEntries)
    /\ [][phase' = "keyed" => val' = val]_vars

(***************************************************************************)
(* C8 as amended.  The same, for the records whose partition-key field and *)
(* sort-key field have different effective external names.                 *)
(***************************************************************************)
C8_KeyExtraction ==
    /\ []((/\ phase = "keyed"
           /\ HasSortField =>
                  EffectiveName(SortField) # EffectiveName(PartitionField))
             => KeyEntries)
    /\ [][phase' = "keyed" => val' = val]_vars

C8_Witness ==
    /\ phase = "keyed"
    /\ Len(ast.fields) = 3
    /\ HasSortField
    /\ EffectiveName(SortField) # EffectiveName(PartitionField)
    /\ Annotated(PartitionField, "Rename")
    /\ Cardinality(DOMAIN keys) = 2

(***************************************************************************)
(* C9 as claimed.  The NameKey record generated by deriving Item on Name   *)
(* itself implements Item (it offers key()), besides the conversions to    *)
(* and from an attribute map.                                              *)
(***************************************************************************)
C9_KeyRecordImplementsItem ==
    (macro = "Item" /\ phase = "expanded") =>
        /\ is_some(impl_of(code, "FromAttributes", ast.ident \o "Key"))
        /\ is_some(impl_of(code, "From", ast.ident \o "Key"))
        /\ is_some(impl_of(code, "Item", ast.ident \o "Key"))

(***************************************************************************)
(* C10.  from_attrs takes the fields in declaration order, each step       *)
(* removing the entry under the field's effective external name from the   *)
(* map and converting it; the first field whose entry is missing without   *)
(* a default annotation, or whose entry does not convert, gives the one    *)
(* error returned, and no later field is examined after it.                *)
(***************************************************************************)
C10_OrderAndShortCircuit ==
    Decoded =>
        LET fields == TypeFields
            names == [i \in 1..Len(fields) |-> EffectiveName(fields[i])]
            finds == [i \in 1..Len(fields) |->
                        /\ names[i] \in DOMAIN attrs
                        /\ \A j \in 1..(i - 1) : names[j] # names[i]]
            fails == [i \in 1..Len(fields) |->
                        IF finds[i] THEN attrs[names[i]].s = <<>>
                        ELSE ~Annotated(fields[i], "Default")]
            failing == { i \in 1..Len(fields) : fails[i] }
        IN  IF failing = {}
            THEN /\ res.result.ok
                 /\ res.examined = Len(fields)
            ELSE LET first == Min(failing)
                 IN  /\ res.result.ok = FALSE
                     /\ res.result.err =
                            IF finds[first]
                            THEN [kind |-> "InvalidType", name |-> ""]
                            ELSE [kind |-> "MissingField", name |-> names[first]]
                     /\ res.examined = first
                     /\ DOMAIN res.rest
                            = DOMAIN attrs \ { names[j] : j \in 1..first }
                     /\ \A k \in DOMAIN res.rest : res.rest[k] = attrs[k]

C10_Witness ==
    /\ Decoded
    /\ Len(TypeFields) = 3
    /\ DistinctNames(TypeFields)
    /\ EffectiveName(TypeFields[1]) \in DOMAIN attrs
    /\ attrs[EffectiveName(TypeFields[1])].s # <<>>
    /\ EffectiveName(TypeFields[2]) \in DOMAIN attrs
    /\ attrs[EffectiveName(TypeFields[2])].s = <<>>
    /\ EffectiveName(TypeFields[3]) \notin DOMAIN attrs
    /\ ~Annotated(TypeFields[3], "Default")
    /\ res.result.err.kind = "InvalidType"
    /\ res.examined = 2

(***************************************************************************)
(* The key fields as C11 has them, and what it is for the sort-key fields  *)
(* after the first to be treated as plain fields, but for those at the     *)
(* exempt positions: such a field is neither in the key record nor         *)
(* inserted by key(), and the record's own conversions handle it as they   *)
(* handle any field.                                                       *)
(***************************************************************************)
KeyFields ==
    <<PartitionField>> \o (IF HasSortField THEN <<SortField>> ELSE <<>>)

ImplsOf(trait, name) ==
    { k \in 1..Len(code) : /\ code[k].item = "impl"
                           /\ code[k].trait = trait
                           /\ code[k].name = name }

SortKeyLaw(exempt) ==
    (ItemDerived /\ Cardinality(Carrying(ast.fields, "PartitionKey")) = 1) =>
        LET sk == Carrying(ast.fields, "SortKey")
            further == IF sk = {} THEN {} ELSE (sk \ {Min(sk)}) \ exempt
        IN  /\ phase \notin {"rejected", "panicked"}
            /\ \A k \in 1..Len(code) : code[k].item # "compile_error"
            /\ Cardinality(KeyStructs) = 1
            /\ Cardinality(ImplsOf("Item", ast.ident)) = 1
            /\ \A s \in KeyStructs : code[s].body = KeyFields
            /\ \A k \in ImplsOf("Item", ast.ident) :
                   code[k].body =
                       [j \in 1..Len(KeyFields) |->
                           [field_deser_name |-> EffectiveName(KeyFields[j]),
                            field_ident |-> KeyFields[j].ident]]
            /\ \A i \in further :
                   /\ \A s \in KeyStructs :
                          \A j \in 1..Len(code[s].body) :
                              code[s].body[j].ident # ast.fields[i].ident
                   /\ \A k \in ImplsOf("Item", ast.ident) :
                          \A j \in 1..Len(code[k].body) :
                              code[k].body[j].field_ident # ast.fields[i].ident
                   /\ \A k \in ImplsOf("From", ast.ident) :
                          code[k].body[i] =
                              [field_deser_name |-> EffectiveName(ast.fields[i]),
                               field_ident |-> ast.fields[i].ident]
                   /\ \A k \in ImplsOf("FromAttributes", ast.ident) :
                          code[k].body[i] =
                              [field_ident |-> ast.fields[i].ident,
                               field_deser_name |-> EffectiveName(ast.fields[i]),
                               arm |-> IF Annotated(ast.fields[i], "Default")
                                       THEN "match_or_default"
                                       ELSE "ok_or_missing"]
            /\ (phase = "keyed" /\ HasSortField) =>
                   /\ DOMAIN keys = { EffectiveName(KeyFields[j]) :
                                        j \in 1..Len(KeyFields) }
                   /\ keys[EffectiveName(SortField)]
                          = [s |-> <<val[SortField.ident]>>, n |-> <<>>]

(***************************************************************************)
(* C11 as claimed.  The number of sort-key fields is never validated: for  *)
(* a record with exactly one partition-key field and any number of         *)
(* sort-key fields, deriving Item succeeds, the key record and key() both  *)
(* use one sort-key field, the first in declaration order, and every       *)
(* further sort-key field is treated as a plain field.                     *)
(***************************************************************************)
C11_SortKeyAnyFurtherField == SortKeyLaw({})

(***************************************************************************)
(* C11.  The number of sort-key fields is never validated: for a record    *)
(* with exactly one partition-key field and any number of sort-key fields, *)
(* deriving Item succeeds, the key record and key() both use one sort-key  *)
(* field, the first in declaration order, and every further sort-key field *)
(* other than the partition-key field is treated as a plain field.         *)
(***************************************************************************)
C11_SortKeyNotValidated == SortKeyLaw(Carrying(ast.fields, "PartitionKey"))

C11_Witness ==
    /\ macro = "Item"
    /\ phase = "keyed"
    /\ Len(ast.fields) = 3
    /\ Carrying(ast.fields, "PartitionKey") = {2}
    /\ Carrying(ast.fields, "SortKey") = {1, 2, 3}
    /\ EffectiveName(ast.fields[1]) # EffectiveName(ast.fields[3])
    /\ \A s \in KeyStructs : code[s].body = <<ast.fields[2], ast.fields[1]>>
    /\ DOMAIN keys = {EffectiveName(ast.fields[2]), EffectiveName(ast.fields[1])}

====
